---- MODULE Spec2Model ----
(***************************************************************************)
(* A model of the doctor-ai retrieval pipeline:                            *)
(*   - QdrantManager.ingest (src/src/qdrant_handler.py): fingerprinted     *)
(*     batch upsert of chunks into the vector collection;                  *)
(*   - RAGModule._refine_query / _format_context / get_response            *)
(*     (src/src/generator.py) and run_bot (src/src/bot.py);                *)
(*   - WikipediaPageProcessor.extract_text_chunks / extract_table_chunks   *)
(*     and the infobox fields (src/src/wiki.py);                           *)
(*   - QdrantManager.__init__ and ingest run by concurrent threads, and    *)
(*     ingest_multiple_wikipedia_pages_to_qdrant (src/src/ingest.py).      *)
(* Text is a sequence of one-character strings, so that strip(), regular   *)
(* expression substitution and concatenation are computed, not assumed.    *)
(***************************************************************************)
EXTENDS Integers, Sequences, FiniteSets, TLC

VARIABLES
    store,        \* the Qdrant collection: point id -> [vector, payload]
    ingestPc,     \* "idle" | "done" | "redone": position of the ingestion caller
    ingestCall,   \* record of the ingest call that last ran (NoCall when idle)
    score_threshold, \* search.score_threshold of the loaded configuration
    ragPc,        \* "idle" | "done": position of the caller of the answer path
    ragCall,      \* record of the answer-path call that last ran (NoCall when idle)
    self_metadata, \* WikipediaPageProcessor.metadata: the infobox fields of the page
    soup,         \* WikipediaPageProcessor.soup: None, or the rendered elements
    chunks,       \* WikipediaPageProcessor.chunks
    extracted,    \* the extract methods run on the processor so far, in order
    wikitext,     \* WikipediaPageProcessor.wikitext: None, or the fetched markup
    normInput,    \* the markup text handed to the normalisation rules
    normPasses,   \* the results of the successive passes of the rules over it
    collection,   \* the collection of the index service: None, or its configuration
    createCalls,  \* the create_collection requests the index service has carried out
    qdrantPc,     \* "idle" | "done": position of the caller of the QdrantManager
    qdrantCall,   \* record of the QdrantManager call that last ran (NoCall when idle)
    llm_instance, \* RAGModule._llm_instance: None, or the shared model
    constructions, \* the LlamaCpp models constructed so far
    threadPc,     \* per request thread: its position in the llm property
    threadLlm,    \* per request thread: the model it built, the models its chains got
    managerPc,    \* per thread: its position in the QdrantManager it constructs
    upserting,    \* per thread: the points of its running upsert not yet applied
    ingested      \* the points built by the ingest calls begun so far

ingestVars == <<store, ingestPc, ingestCall>>
ragVars == <<score_threshold, ragPc, ragCall>>
wikiVars == <<self_metadata, soup, chunks, extracted, wikitext>>
normVars == <<normInput, normPasses>>
qdrantVars == <<collection, createCalls, qdrantPc, qdrantCall>>
llmVars == <<llm_instance, constructions, threadPc, threadLlm>>
callerVars == <<managerPc, upserting, ingested>>
vars == <<store, ingestPc, ingestCall, score_threshold, ragPc, ragCall,
          self_metadata, soup, chunks, extracted, wikitext,
          normInput, normPasses, collection, createCalls, qdrantPc, qdrantCall,
          llm_instance, constructions, threadPc, threadLlm,
          managerPc, upserting, ingested>>

NoCall == [op |-> "none"]

Min(a, b) == IF a <= b THEN a ELSE b

(***************************************************************************)
(* Bounds of the model.                                                    *)
(***************************************************************************)
\* Longest batch of chunks handed to one ingest call.
MaxBatch == 2
\* Width in bits of the modelled digest (MD5 is 128 bits wide; the model keeps
\* it narrow so that two different chunks can share an id).
DigestBits == 2

(***************************************************************************)
(* QdrantManager: chunk fingerprint, embedding, ingest                     *)
(***************************************************************************)

\* Every token a rendered string of the ingestion model can hold.
TokenList ==
    <<"a", "b", "[", "]", "'", "{", "}", ",", "page_title:", "heading:", "P", "I", "T", "Q">>

Code(t) == CHOOSE i \in 1..Len(TokenList) : TokenList[i] = t

RECURSIVE Pow2(_)
Pow2(n) == IF n = 0 THEN 1 ELSE 2 * Pow2(n - 1)

\* hashlib.md5(...).hexdigest(): a deterministic digest of the whole string.
RECURSIVE md5(_)
md5(s) ==
    IF s = <<>> THEN 7
    ELSE (md5(SubSeq(s, 1, Len(s) - 1)) * 31 + Code(s[Len(s)])) % Pow2(DigestBits)

\* Documents handed to ingest: a plain string, a dict with a "content" key, or
\* a table (a list), which str() renders with brackets and quotes.
Documents ==
    { [kind |-> "str",  val |-> <<"a">>],
      [kind |-> "dict", val |-> <<"a">>],
      [kind |-> "list", val |-> <<"a">>] }

\* Chunk metadata dictionaries, with the keys in insertion order.
Metadatas ==
    { [page_title |-> "P", heading |-> "I"],
      [page_title |-> "P", heading |-> "T"] }

\* str(doc) of a document that is not a dict.
PyStrDoc(doc) ==
    IF doc.kind = "list" THEN <<"[", "'">> \o doc.val \o <<"'", "]">> ELSE doc.val

\* str(metadata): the repr of the dict.
PyStrMeta(meta) ==
    <<"{", "page_title:", meta.page_title, ",", "heading:", meta.heading, "}">>

\* content = doc["content"] if isinstance(doc, dict) else str(doc)
ContentOf(doc) == IF doc.kind = "dict" THEN doc.val ELSE PyStrDoc(doc)

\* Every content string a document of the model yields.
Contents == { ContentOf(d) : d \in Documents }

\* A plausible slip: the id also depends on how many points are stored (an
\* id drawn per call instead of from the chunk alone).
generate_chunk_hash_fresh(content, metadata) ==
    (md5(content \o PyStrMeta(metadata)) + Cardinality(DOMAIN store)) % Pow2(DigestBits)

generate_chunk_hash(content, metadata) ==
    md5(content \o PyStrMeta(metadata))

RECURSIVE CountTok(_, _)
CountTok(s, t) ==
    IF s = <<>> THEN 0
    ELSE (IF Head(s) = t THEN 1 ELSE 0) + CountTok(Tail(s), t)

\* The embedding capability: a fixed-length vector determined by the text.
generate_embedding(text) == <<CountTok(text, "a"), CountTok(text, "b")>>

\* The points built by the loop of ingest: a chunk whose embedding raises is
\* logged and skipped (continue), the others are appended in order.
RECURSIVE BuildPoints(_, _, _, _)
BuildPoints(documents, metadata, i, embedBad) ==
    IF i > Min(Len(documents), Len(metadata)) THEN <<>>
    ELSE LET content == ContentOf(documents[i])
             meta    == metadata[i]
             point   == [id      |-> generate_chunk_hash(content, meta),
                         vector  |-> generate_embedding(content),
                         payload |-> [text |-> content, metadata |-> meta]]
         IN  IF content \in embedBad
             THEN BuildPoints(documents, metadata, i + 1, embedBad)
             ELSE <<point>> \o BuildPoints(documents, metadata, i + 1, embedBad)

\* A plausible slip: the request replaces the collection by its points (the
\* collection recreated per call) instead of merging them into it.
upsert_recreated(st, points) ==
    [id \in { points[k].id : k \in 1..Len(points) } |->
        LET k == CHOOSE k \in 1..Len(points) :
                     /\ points[k].id = id
                     /\ \A j \in 1..Len(points) : points[j].id = id => j <= k
        IN  [vector |-> points[k].vector, payload |-> points[k].payload]]

\* client.upsert of the index service: each point replaces the point stored
\* under its id, or is added; points are applied in order.
RECURSIVE upsert(_, _)
upsert(st, points) ==
    IF points = <<>> THEN st
    ELSE LET p == Head(points)
         IN  upsert((p.id :> [vector |-> p.vector, payload |-> p.payload]) @@ st,
                    Tail(points))

\* The index service refuses the request when it refuses one of its points.
UpsertRaises(points, rejected) ==
    \E k \in 1..Len(points) : points[k].payload.text \in rejected

\* QdrantManager.ingest as a function of the collection, its arguments and the
\* failures of the two collaborators during the call.
ingest(st, documents, metadata, embedBad, rejected) ==
    LET points == BuildPoints(documents, metadata, 1, embedBad)
    IN  IF points = <<>>
        THEN [store |-> st, outcome |-> "returned", points |-> points]
        ELSE IF UpsertRaises(points, rejected)
        THEN [store |-> st, outcome |-> "raised", points |-> points]
        ELSE [store |-> upsert(st, points), outcome |-> "returned", points |-> points]

Chunks == [doc : Documents, meta : Metadatas]

Batches == UNION { [1..n -> Chunks] : n \in 0..MaxBatch }

DocsOf(batch) == [i \in 1..Len(batch) |-> batch[i].doc]
MetasOf(batch) == [i \in 1..Len(batch) |-> batch[i].meta]

IngestRecord(documents, metadata, embedBad, rejected, r, again, prev) ==
    [op        |-> "ingest",
     prev      |-> prev,
     documents |-> documents,
     metadata  |-> metadata,
     embedBad  |-> embedBad,
     rejected  |-> rejected,
     outcome   |-> r.outcome,
     points    |-> r.points,
     again     |-> again]

\* A caller runs ingest on a batch of chunks.
Ingest ==
    /\ ingestPc = "idle"
    /\ \E batch \in Batches, embedBad \in SUBSET Contents, rejected \in SUBSET Contents :
         LET r == ingest(store, DocsOf(batch), MetasOf(batch), embedBad, rejected)
         IN  /\ store' = r.store
             /\ ingestCall' = IngestRecord(DocsOf(batch), MetasOf(batch),
                                           embedBad, rejected, r, FALSE, NoCall)
    /\ ingestPc' = "done"
    /\ UNCHANGED <<ragVars, wikiVars, normVars, qdrantVars, llmVars, callerVars>>

\* The caller runs ingest again with the same two lists (the ingestion
\* script executed a second time); the collaborators may fail differently.
IngestAgain ==
    /\ ingestPc = "done"
    /\ \E embedBad \in SUBSET Contents, rejected \in SUBSET Contents :
         LET r == ingest(store, ingestCall.documents, ingestCall.metadata,
                         embedBad, rejected)
         IN  /\ store' = r.store
             /\ ingestCall' = IngestRecord(ingestCall.documents, ingestCall.metadata,
                                           embedBad, rejected, r, TRUE,
                                           [op       |-> "ingest",
                                            outcome  |-> ingestCall.outcome,
                                            embedBad |-> ingestCall.embedBad])
    /\ ingestPc' = "redone"
    /\ UNCHANGED <<ragVars, wikiVars, normVars, qdrantVars, llmVars, callerVars>>

\* The caller is done with the call's outcome; the collection stays.
IngestDone ==
    /\ ingestPc \in {"done", "redone"}
    /\ ingestPc' = "idle"
    /\ ingestCall' = NoCall
    /\ UNCHANGED <<store, ragVars, wikiVars, normVars, qdrantVars, llmVars, callerVars>>

\* The answer path before any request, under a configuration whose threshold
\* is 0 (used where the answer path does not run).
RagAtRest ==
    /\ score_threshold = 0
    /\ ragPc = "idle"
    /\ ragCall = NoCall

\* The collection before any ingestion.
IngestAtRest ==
    /\ store = <<>>
    /\ ingestPc = "idle"
    /\ ingestCall = NoCall

\* A page processor as constructed, before anything is fetched.
WikiAtRest ==
    /\ self_metadata = [k \in {} |-> <<>>]
    /\ soup = <<>>
    /\ chunks = <<>>
    /\ extracted = <<>>
    /\ wikitext = <<>>

\* No text has been handed to the normalisation rules.
NormAtRest ==
    /\ normInput = <<>>
    /\ normPasses = <<>>

\* The text get_or_create_collection embeds to learn the vector size.
SampleText == <<"sample text">>

\* VectorParams(size=..., distance=models.Distance.COSINE).
VectorParams(size) == [size |-> size, distance |-> "Cosine"]

\* The index service after a QdrantManager was constructed once: the
\* collection exists, created by that construction.
QdrantAtRest ==
    /\ collection = <<VectorParams(Len(generate_embedding(SampleText)))>>
    /\ createCalls = 1
    /\ qdrantPc = "idle"
    /\ qdrantCall = NoCall

\* Largest number of request threads of the API server.
MaxThreads == 2

Threads == 1..MaxThreads

\* No request thread has touched the llm property.
LlmAtRest ==
    /\ llm_instance = <<>>
    /\ constructions = 0
    /\ threadPc = [t \in Threads |-> [at |-> "idle", chain |-> "none"]]
    /\ threadLlm = [t \in Threads |-> [built |-> <<>>, refinement |-> <<>>,
                                       response |-> <<>>]]

\* No thread is constructing a QdrantManager or running an ingest call.
CallersAtRest ==
    /\ managerPc = [t \in Threads |-> [at |-> "idle", last |-> "none"]]
    /\ upserting = [t \in Threads |-> <<>>]
    /\ ingested = {}

InitIngest ==
    IngestAtRest /\ RagAtRest /\ WikiAtRest /\ NormAtRest /\ QdrantAtRest /\ LlmAtRest
    /\ CallersAtRest

NextIngest == Ingest \/ IngestAgain \/ IngestDone

SpecIngest == InitIngest /\ [][NextIngest]_vars

(***************************************************************************)
(* RAGModule: query refinement, context formatting, get_response; run_bot  *)
(***************************************************************************)

\* Longest conversation history handed to the answer path.
MaxHistory == 2
\* Largest number of results a search is asked for (search.default_limit).
MaxResults == 2
\* Largest similarity score of the model, in tenths.
MaxScore == 2

\* An optional value: <<>> is None, <<v>> is the value v.
None == <<>>
Some(v) == <<v>>
IsNone(opt) == opt = <<>>

\* The whitespace characters (\s of the patterns, and what strip() removes).
Whitespace == {" ", "\n"}


\* str.strip(): leading and trailing whitespace removed.
RECURSIVE LStrip(_)
LStrip(s) == IF s # <<>> /\ Head(s) \in Whitespace THEN LStrip(Tail(s)) ELSE s

RECURSIVE RStrip(_)
RStrip(s) ==
    IF s # <<>> /\ s[Len(s)] \in Whitespace THEN RStrip(SubSeq(s, 1, Len(s) - 1)) ELSE s

Strip(s) == RStrip(LStrip(s))

Queries == { <<"q">>, <<" ", "q">>, <<>> }

Turns == { [role |-> "user", message |-> <<"m">>],
           [role |-> "bot",  message |-> <<"m">>] }

Histories == UNION { [1..n -> Turns] : n \in 0..MaxHistory }

\* Payload metadata of a stored point: with both keys, or with none.
MetaFull == ("page_title" :> "P") @@ ("heading" :> "H")
MetaBare == [k \in {} |-> "P"]

\* dict.get(key, default)
Get(d, key, default) == IF key \in DOMAIN d THEN d[key] ELSE default

\* QdrantManager.search asks the index for scores of at least 0.0.
Scores == 0..MaxScore

SearchResults == [metadata : {MetaFull, MetaBare}, text : {<<"a">>}, score : Scores]

\* What the index returns for a limit: at most limit results, by descending
\* score.
ResultLists(limit) ==
    { rs \in UNION { [1..n -> SearchResults] : n \in 0..limit } :
        \A i \in 1..(Len(rs) - 1) : rs[i].score >= rs[i + 1].score }

\* The outcome of one call of a collaborator: it raises, or returns a value.
Raises == [ok |-> FALSE, val |-> <<>>]
Returns(v) == [ok |-> TRUE, val |-> v]

\* What the language model may answer to the refinement and response prompts.
RefinedTexts == { <<"r">>, <<" ", "r", " ">> }
ResponseTexts == { <<"t">> }

\* search.default_limit of the loaded configuration.
default_limit == MaxResults

NoInfoMessage == <<"I couldn't find any relevant information to answer your question.">>

\* One piece of the context string: a rendered conversation turn, the blank
\* line after the history, or a "Source i" block.
TurnLine(role, message) ==
    [kind |-> "turn", i |-> 0, title |-> role, section |-> "", content |-> message]
BlankLine ==
    [kind |-> "blank", i |-> 0, title |-> "", section |-> "", content |-> <<>>]
SourceBlock(i, title, section, content) ==
    [kind |-> "source", i |-> i, title |-> title, section |-> section, content |-> content]

\* str.capitalize() of a role.
Capitalize(role) ==
    CASE role = "user" -> "User"
      [] role = "bot"  -> "Bot"
      [] OTHER         -> role

\* A plausible slip: a history of one turn already counts as context.
ShortHistoryOffByOne(conversation_history) ==
    IsNone(conversation_history) \/ Len(conversation_history[1]) < 1

\* not conversation_history or len(conversation_history) < 2
ShortHistory(conversation_history) ==
    \/ IsNone(conversation_history)
    \/ conversation_history[1] = <<>>
    \/ Len(conversation_history[1]) < 2

\* A plausible slip: the handler logs and re-raises.
RefineOnErrorReraise(query) == [raised |-> TRUE, query |-> query]

\* except Exception: log and return the original query.
RefineOnError(query) == [raised |-> FALSE, query |-> query]

\* RAGModule._refine_query: llm is the outcome of refinement_chain.run, used
\* only if the chain is run. The result holds the returned query and the
\* invocations of the language model, in order.
refine_query(query, conversation_history, llm) ==
    IF ShortHistory(conversation_history)
    THEN [raised |-> FALSE, query |-> query, llm |-> <<>>]
    ELSE LET history_text ==
                 [k \in 1..Len(conversation_history[1]) |->
                     TurnLine(conversation_history[1][k].role,
                              conversation_history[1][k].message)]
             call == [chain |-> "refinement", context |-> history_text,
                      query |-> query, ok |-> llm.ok]
         IN  IF llm.ok
             THEN [raised |-> FALSE, query |-> Strip(llm.val), llm |-> <<call>>]
             ELSE [raised |-> RefineOnError(query).raised,
                   query  |-> RefineOnError(query).query,
                   llm    |-> <<call>>]

\* A plausible slip: the context keeps only the results above the threshold.
ContextKeepsStrict(score) == score > score_threshold

\* if score >= self.search_config['score_threshold'] (in _format_context)
ContextKeeps(score) == score >= score_threshold

\* RAGModule._format_context: one block per result that passes the
\* threshold, numbered by the result's position among all results.
RECURSIVE FormatFrom(_, _)
FormatFrom(search_results, i) ==
    IF i > Len(search_results) THEN <<>>
    ELSE LET result == search_results[i]
             block  == SourceBlock(i,
                                   Get(result.metadata, "page_title", "Unknown"),
                                   Get(result.metadata, "heading", "N/A"),
                                   result.text)
         IN  (IF ContextKeeps(result.score) THEN <<block>> ELSE <<>>)
             \o FormatFrom(search_results, i + 1)

format_context(search_results) == FormatFrom(search_results, 1)

\* A plausible slip: the sources keep only the results above the threshold.
SourceKeepsStrict(score) == score > score_threshold

\* if result['score'] >= self.search_config['score_threshold'] (step 8)
SourceKeeps(score) == score >= score_threshold

\* Step 8 of get_response: the list comprehension building the sources.
RECURSIVE SourcesFrom(_, _)
SourcesFrom(search_results, i) ==
    IF i > Len(search_results) THEN <<>>
    ELSE LET result == search_results[i]
             source == [title   |-> Get(result.metadata, "page_title", "Unknown"),
                        section |-> Get(result.metadata, "heading", "N/A"),
                        score   |-> result.score]
         IN  (IF SourceKeeps(result.score) THEN <<source>> ELSE <<>>)
             \o SourcesFrom(search_results, i + 1)

\* A plausible slip: the empty result list is not short-circuited.
NoResultsNever(search_results) == FALSE

\* if not search_results
NoResults(search_results) == search_results = <<>>

NoValue == [response |-> <<>>, sources |-> <<>>, relevant_results |-> -1]

\* RAGModule.get_response. env holds the outcomes of the collaborators:
\* env.refine of refinement_chain.run, env.search of qdrant_manager.search,
\* env.answer of response_chain.run; each is consumed only if the call is
\* made. The result records what the call did and what it gave its caller.
get_response(query, conversation_history, num_results, env) ==
    LET history == IF IsNone(conversation_history) THEN <<>> ELSE conversation_history[1]
        refined == refine_query(query, Some(history), env.refine)
        limit   == IF IsNone(num_results) THEN default_limit ELSE num_results[1]
        base    == [query       |-> query,
                    history     |-> history,
                    searched    |-> FALSE,
                    searchText  |-> <<>>,
                    searchLimit |-> 0,
                    searchOk    |-> FALSE,
                    results     |-> <<>>,
                    llm         |-> refined.llm,
                    outcome     |-> "raised",
                    value       |-> NoValue]
    IN  IF refined.raised THEN base
        ELSE LET searched == [base EXCEPT !.searched    = TRUE,
                                          !.searchText  = refined.query,
                                          !.searchLimit = limit,
                                          !.searchOk    = env.search.ok]
             IN  IF ~env.search.ok THEN searched
                 ELSE LET search_results == env.search.val
                          found == [searched EXCEPT !.results = search_results]
                      IN  IF NoResults(search_results)
                          THEN [found EXCEPT
                                  !.outcome = "returned",
                                  !.value   = [response         |-> NoInfoMessage,
                                               sources          |-> <<>>,
                                               relevant_results |-> 0]]
                          ELSE LET conversation_context ==
                                       [k \in 1..Len(history) |->
                                           TurnLine(Capitalize(history[k].role),
                                                    history[k].message)]
                                   context ==
                                       IF history # <<>>
                                       THEN conversation_context \o <<BlankLine>>
                                            \o format_context(search_results)
                                       ELSE format_context(search_results)
                                   call == [chain |-> "response", context |-> context,
                                            query |-> refined.query, ok |-> env.answer.ok]
                                   asked == [found EXCEPT !.llm = refined.llm \o <<call>>]
                                   sources == SourcesFrom(search_results, 1)
                               IN  IF ~env.answer.ok THEN asked
                                   ELSE [asked EXCEPT
                                           !.outcome = "returned",
                                           !.value   = [response         |-> env.answer.val,
                                                        sources          |-> sources,
                                                        relevant_results |-> Len(sources)]]

\* run_bot with interactive=False. constructed says whether RAGModule(config)
\* could be built. The result holds what run_bot gave its caller: an error
\* raised, None, or a dict with 'response' and 'sources'.
run_bot(query, conversation_history, constructed, env) ==
    LET inner == get_response(query, conversation_history, None, env)
        error == [outcome |-> "returned",
                  value   |-> Some([response |-> <<"Error processing query: ">>,
                                    sources  |-> <<>>]),
                  called  |-> FALSE,
                  inner   |-> NoCall]
    IN  IF ~constructed THEN error
        ELSE IF query = <<>>
        THEN [outcome |-> "returned", value |-> None, called |-> FALSE, inner |-> NoCall]
        ELSE IF inner.outcome = "raised"
        THEN [error EXCEPT !.called = TRUE, !.inner = inner]
        ELSE [outcome |-> "returned",
              value   |-> Some([response |-> inner.value.response,
                                sources  |-> inner.value.sources]),
              called  |-> TRUE,
              inner   |-> inner]

\* The outcomes the collaborators may have during one call asking for at most
\* limit results.
Envs(limit) ==
    [refine : {Raises} \cup { Returns(t) : t \in RefinedTexts },
     search : {Raises} \cup { Returns(rs) : rs \in ResultLists(limit) },
     answer : {Raises} \cup { Returns(t) : t \in ResponseTexts }]

LimitOf(num_results) == IF IsNone(num_results) THEN default_limit ELSE num_results[1]

OptHistories == {None} \cup { Some(h) : h \in Histories }

\* A caller (the API's /generate is one, through run_bot) asks for an answer.
GetResponse ==
    /\ ragPc = "idle"
    /\ \E query \in Queries, conversation_history \in OptHistories,
          num_results \in {None} \cup { Some(n) : n \in 1..MaxResults } :
         \E env \in Envs(LimitOf(num_results)) :
            ragCall' = [op     |-> "get_response",
                        asked  |-> [conversation_history |-> conversation_history,
                                    num_results          |-> num_results],
                        did    |-> get_response(query, conversation_history,
                                                num_results, env)]
    /\ ragPc' = "done"
    /\ UNCHANGED <<score_threshold, ingestVars, wikiVars, normVars, qdrantVars, llmVars, callerVars>>

\* _refine_query called on its own.
RefineQuery ==
    /\ ragPc = "idle"
    /\ \E query \in Queries, conversation_history \in OptHistories,
          llm \in {Raises} \cup { Returns(t) : t \in RefinedTexts } :
         ragCall' = [op     |-> "refine_query",
                     asked  |-> [query |-> query,
                                 conversation_history |-> conversation_history],
                     did    |-> refine_query(query, conversation_history, llm)]
    /\ ragPc' = "done"
    /\ UNCHANGED <<score_threshold, ingestVars, wikiVars, normVars, qdrantVars, llmVars, callerVars>>

\* The /generate endpoint (or the command line) runs the bot on one query.
RunBot ==
    /\ ragPc = "idle"
    /\ \E query \in Queries, conversation_history \in OptHistories,
          constructed \in BOOLEAN :
         \E env \in Envs(default_limit) :
            ragCall' = [op     |-> "run_bot",
                        asked  |-> [query |-> query,
                                    conversation_history |-> conversation_history],
                        did    |-> run_bot(query, conversation_history, constructed, env)]
    /\ ragPc' = "done"
    /\ UNCHANGED <<score_threshold, ingestVars, wikiVars, normVars, qdrantVars, llmVars, callerVars>>

\* The caller has its answer or its error; the next request starts afresh.
RagDone ==
    /\ ragPc = "done"
    /\ ragPc' = "idle"
    /\ ragCall' = NoCall
    /\ UNCHANGED <<score_threshold, ingestVars, wikiVars, normVars, qdrantVars, llmVars, callerVars>>

Init ==
    /\ IngestAtRest
    /\ WikiAtRest
    /\ NormAtRest
    /\ QdrantAtRest
    /\ LlmAtRest
    /\ CallersAtRest
    /\ score_threshold \in Scores
    /\ ragPc = "idle"
    /\ ragCall = NoCall

Next == GetResponse \/ RefineQuery \/ RunBot \/ RagDone

Spec == Init /\ [][Next]_vars

(***************************************************************************)
(* QdrantManager: get_or_create_collection, search                         *)
(***************************************************************************)

\* client.collection_exists of the index service.
collection_exists(coll) == ~IsNone(coll)

\* client.create_collection of the index service: the collection is created
\* with the given vector parameters; the request is refused when a collection
\* of that name exists.
create_collection(coll, vectors_config) ==
    IF collection_exists(coll) THEN [ok |-> FALSE, collection |-> coll]
    ELSE [ok |-> TRUE, collection |-> Some(vectors_config)]

\* "if not self.client.collection_exists(...)": the collection is created
\* when the index service does not have it.
MustCreateAlways(coll) == TRUE

MustCreate(coll) == ~collection_exists(coll)

\* QdrantManager.get_or_create_collection as a function of the collection of
\* the index service and of the number of creations it has carried out.
get_or_create_collection(coll, created) ==
    IF MustCreate(coll)
    THEN LET sample_embedding == generate_embedding(SampleText)
             vector_size      == Len(sample_embedding)
             r                == create_collection(coll, VectorParams(vector_size))
         IN  IF r.ok
             THEN [outcome |-> "returned", collection |-> r.collection,
                   createCalls |-> created + 1]
             ELSE [outcome |-> "raised", collection |-> coll, createCalls |-> created]
    ELSE [outcome |-> "returned", collection |-> coll, createCalls |-> created]

\* score_threshold=0.0 of the client.search call, in tenths.
store_score_threshold == 0

\* The similarity the index service computes between the query vector and a
\* stored vector (cosine, in tenths): negative when the two point apart.
Similarities(st) == [DOMAIN st -> (-MaxScore)..MaxScore]

\* The filter_conditions argument of search: None, {} or {"heading": "I"}.
FilterConditions == { None, Some([key \in {} |-> ""]), Some("heading" :> "I") }

\* models.Filter(must=[FieldCondition(key="metadata.<key>", match=MatchValue(value))...]):
\* the point's payload has each key with the given value.
MatchesFilter(payload, query_filter) ==
    IsNone(query_filter)
    \/ \A key \in DOMAIN query_filter[1] :
          /\ key \in DOMAIN payload.metadata
          /\ payload.metadata[key] = query_filter[1][key]

\* The hits of the index service in descending order of score, at most n.
RECURSIVE TopHits(_, _, _, _)
TopHits(st, similarity, ids, n) ==
    IF n = 0 \/ ids = {} THEN <<>>
    ELSE LET best == CHOOSE id \in ids : \A other \in ids :
                         similarity[id] >= similarity[other]
         IN  <<[payload |-> st[best].payload, score |-> similarity[best]]>>
             \o TopHits(st, similarity, ids \ {best}, n - 1)

\* client.search of the index service: the points matching the filter whose
\* score is not below the threshold (when one is given), best first, at most
\* limit of them.
client_search(st, similarity, query_filter, limit, threshold) ==
    TopHits(st, similarity,
            { id \in DOMAIN st :
                /\ MatchesFilter(st[id].payload, query_filter)
                /\ IsNone(threshold) \/ similarity[id] >= threshold[1] },
            limit)

\* QdrantManager.search as a function of its arguments, the collection, the
\* similarities of the stored points to the query and the embedding
\* capability answering or not.
search(text, filter_conditions, limit, st, similarity, embedOk) ==
    IF ~embedOk THEN [outcome |-> "raised", results |-> <<>>]
    ELSE LET query_filter  == IF IsNone(filter_conditions)
                                 \/ DOMAIN filter_conditions[1] = {}
                              THEN None ELSE filter_conditions
             search_result == client_search(st, similarity, query_filter, limit,
                                            Some(store_score_threshold))
         IN  [outcome |-> "returned",
              results |-> [k \in 1..Len(search_result) |->
                              [metadata |-> search_result[k].payload.metadata,
                               text     |-> search_result[k].payload.text,
                               score    |-> search_result[k].score]]]

\* The collections left by earlier ingestions of chunks of plain text.
StoredCollections ==
    { upsert(<<>>, BuildPoints(DocsOf(batch), MetasOf(batch), 1, {})) :
        batch \in { b \in Batches : \A k \in 1..Len(b) : b[k].doc.kind = "str" } }

\* QdrantManager.__init__: a manager is constructed, which ensures the
\* collection.
NewQdrantManager ==
    /\ qdrantPc = "idle"
    /\ LET r == get_or_create_collection(collection, createCalls)
       IN  /\ collection' = r.collection
           /\ createCalls' = r.createCalls
           /\ qdrantCall' = [op      |-> "get_or_create_collection",
                             before  |-> [collection  |-> collection,
                                          createCalls |-> createCalls,
                                          store       |-> store],
                             outcome |-> r.outcome]
    /\ qdrantPc' = "done"
    /\ UNCHANGED <<ingestVars, ragVars, wikiVars, normVars, llmVars, callerVars>>

\* A manager (whose construction ensured the collection) runs a search.
Search ==
    /\ qdrantPc = "idle"
    /\ collection_exists(collection)
    /\ \E filter_conditions \in FilterConditions, limit \in 1..MaxResults,
          similarity \in Similarities(store), embedOk \in BOOLEAN :
         LET r == search(<<"q">>, filter_conditions, limit, store, similarity, embedOk)
         IN  qdrantCall' = [op                |-> "search",
                            filter_conditions |-> filter_conditions,
                            limit             |-> limit,
                            similarity        |-> similarity,
                            outcome           |-> r.outcome,
                            results           |-> r.results]
    /\ qdrantPc' = "done"
    /\ UNCHANGED <<collection, createCalls, ingestVars, ragVars, wikiVars,
                   normVars, llmVars, callerVars>>

\* The caller is done with the call's outcome.
QdrantDone ==
    /\ qdrantPc = "done"
    /\ qdrantPc' = "idle"
    /\ qdrantCall' = NoCall
    /\ UNCHANGED <<collection, createCalls, ingestVars, ragVars, wikiVars,
                   normVars, llmVars, callerVars>>

\* An index service that never had the collection, or one that has it from
\* an earlier run, with what was ingested then.
InitQdrant ==
    /\ RagAtRest
    /\ WikiAtRest
    /\ NormAtRest
    /\ LlmAtRest
    /\ CallersAtRest
    /\ ingestPc = "idle"
    /\ ingestCall = NoCall
    /\ qdrantPc = "idle"
    /\ qdrantCall = NoCall
    /\ \/ collection = None /\ createCalls = 0 /\ store = <<>>
       \/ /\ collection = Some(VectorParams(Len(generate_embedding(SampleText))))
          /\ createCalls = 1
          /\ store \in StoredCollections

NextQdrant == NewQdrantManager \/ Search \/ QdrantDone

SpecQdrant == InitQdrant /\ [][NextQdrant]_vars

(***************************************************************************)
(* RAGModule.llm: the shared model, reached by concurrent request threads  *)
(*                                                                         *)
(* /generate is a synchronous endpoint, so the server runs each request in *)
(* a thread of its pool; each request constructs a RAGModule, whose        *)
(* _initialize_chains reads the llm property twice.  The property is a     *)
(* test of the class attribute, a construction and an assignment, with no  *)
(* lock: another thread may run between any two of them.                   *)
(***************************************************************************)

NoLlm == [built |-> None, refinement |-> None, response |-> None]

\* "if not self.__class__._llm_instance"
InstanceMissing(instance) == IsNone(instance)

\* run_bot: rag = RAGModule(config_path); __init__ reaches _initialize_chains,
\* which is about to read self.llm for the refinement chain.
NewRAGModule(t) ==
    /\ threadPc[t].at = "idle"
    /\ threadPc' = [threadPc EXCEPT ![t] = [at |-> "check", chain |-> "refinement"]]
    /\ threadLlm' = [threadLlm EXCEPT ![t] = NoLlm]
    /\ UNCHANGED <<llm_instance, constructions,
                   ingestVars, ragVars, wikiVars, normVars, qdrantVars, callerVars>>

\* The property tests the class attribute.
LlmCheck(t) ==
    /\ threadPc[t].at = "check"
    /\ threadPc' = [threadPc EXCEPT ![t].at =
                       IF InstanceMissing(llm_instance) THEN "construct" ELSE "return"]
    /\ UNCHANGED <<llm_instance, constructions, threadLlm,
                   ingestVars, ragVars, wikiVars, normVars, qdrantVars, callerVars>>

\* LlamaCpp(...): a model is constructed (loaded from model_path).
LlmConstruct(t) ==
    /\ threadPc[t].at = "construct"
    /\ constructions' = constructions + 1
    /\ threadLlm' = [threadLlm EXCEPT ![t].built = Some(constructions + 1)]
    /\ threadPc' = [threadPc EXCEPT ![t].at = "assign"]
    /\ UNCHANGED <<llm_instance, ingestVars, ragVars, wikiVars, normVars, qdrantVars, callerVars>>

\* self.__class__._llm_instance = <the model constructed>
LlmAssign(t) ==
    /\ threadPc[t].at = "assign"
    /\ llm_instance' = threadLlm[t].built
    /\ threadPc' = [threadPc EXCEPT ![t].at = "return"]
    /\ UNCHANGED <<constructions, threadLlm,
                   ingestVars, ragVars, wikiVars, normVars, qdrantVars, callerVars>>

\* return self.__class__._llm_instance: the chain being built gets the model
\* the class attribute holds now; the response chain is built after the
\* refinement chain.
LlmReturn(t) ==
    /\ threadPc[t].at = "return"
    /\ IF threadPc[t].chain = "refinement"
       THEN /\ threadLlm' = [threadLlm EXCEPT ![t].refinement = llm_instance]
            /\ threadPc' = [threadPc EXCEPT ![t] = [at |-> "check", chain |-> "response"]]
       ELSE /\ threadLlm' = [threadLlm EXCEPT ![t].response = llm_instance]
            /\ threadPc' = [threadPc EXCEPT ![t] = [at |-> "done", chain |-> "response"]]
    /\ UNCHANGED <<llm_instance, constructions,
                   ingestVars, ragVars, wikiVars, normVars, qdrantVars, callerVars>>

\* The request is answered; the thread goes back to the pool.
RequestDone(t) ==
    /\ threadPc[t].at = "done"
    /\ threadPc' = [threadPc EXCEPT ![t] = [at |-> "idle", chain |-> "none"]]
    /\ UNCHANGED <<llm_instance, constructions, threadLlm,
                   ingestVars, ragVars, wikiVars, normVars, qdrantVars, callerVars>>

InitLlm ==
    /\ IngestAtRest
    /\ RagAtRest
    /\ WikiAtRest
    /\ NormAtRest
    /\ QdrantAtRest
    /\ LlmAtRest
    /\ CallersAtRest

NextLlm ==
    \E t \in Threads :
        \/ NewRAGModule(t)
        \/ LlmCheck(t)
        \/ LlmConstruct(t)
        \/ LlmAssign(t)
        \/ LlmReturn(t)
        \/ RequestDone(t)

SpecLlm == InitLlm /\ [][NextLlm]_vars

(***************************************************************************)
(* Wiki markup: the substitutions of re.sub, computed on the characters    *)
(*                                                                         *)
(* A text is a sequence of characters.  A word whose letters no pattern    *)
(* tells apart ("Infobox", "ref", "synonyms", "Lesion") is one element of  *)
(* the sequence; every character a pattern names is an element of its own. *)
(***************************************************************************)

\* The literal lit stands in s at position i.
StartsAt(s, i, lit) ==
    /\ i + Len(lit) - 1 <= Len(s)
    /\ \A k \in 1..Len(lit) : s[i + k - 1] = lit[k]

\* The first position from i on where lit stands, what ".*?" has to cross
\* to get there holding no line end unless dotall; 0 when there is none.
Find(s, i, lit, dotall) ==
    LET hits == { j \in i..Len(s) :
                    /\ StartsAt(s, j, lit)
                    /\ dotall \/ \A k \in i..(j - 1) : s[k] # "\n" }
    IN  IF hits = {} THEN 0 ELSE CHOOSE j \in hits : \A h \in hits : j <= h

\* The position after the longest run, from i on, of characters of chars.
RunWithin(s, i, chars) ==
    CHOOSE j \in i..(Len(s) + 1) :
        /\ \A k \in i..(j - 1) : s[k] \in chars
        /\ j = Len(s) + 1 \/ s[j] \notin chars

\* The position after the longest run, from i on, of characters not in chars.
RunWithout(s, i, chars) ==
    CHOOSE j \in i..(Len(s) + 1) :
        /\ \A k \in i..(j - 1) : s[k] \notin chars
        /\ j = Len(s) + 1 \/ s[j] \in chars

\* re.sub(open + ".*?" + close, "", s) from position i on: scanning from the
\* left, each open with the nearest close after it is removed with what is
\* between them.
RECURSIVE RemoveDelimited(_, _, _, _, _)
RemoveDelimited(s, i, open, close, dotall) ==
    IF i > Len(s) THEN <<>>
    ELSE LET j == Find(s, i + Len(open), close, dotall)
         IN  IF StartsAt(s, i, open) /\ j # 0
             THEN RemoveDelimited(s, j + Len(close), open, close, dotall)
             ELSE <<s[i]>> \o RemoveDelimited(s, i + 1, open, close, dotall)

\* r'<ref.*?</ref>' -> ''
SubRef(value, dotall) ==
    RemoveDelimited(value, 1, <<"<", "ref">>, <<"<", "/", "ref", ">">>, dotall)

\* r'<!--.*?-->' -> ''
SubComment(value) ==
    RemoveDelimited(value, 1, <<"<", "!", "-", "-">>, <<"-", "-", ">">>, FALSE)

\* r'\[\[(?:[^|\]]*\|)?([^\]]+)\]\]' -> r'\1': "[[", a non-empty run without
\* "]", then "]]"; what is kept is the run after its first "|" when something
\* follows that "|", the whole run otherwise.
RECURSIVE LinkFrom(_, _)
LinkFrom(s, i) ==
    IF i > Len(s) THEN <<>>
    ELSE LET j   == RunWithout(s, i + 2, {"]"})
             run == SubSeq(s, i + 2, j - 1)
             bar == Find(run, 1, <<"|">>, TRUE)
         IN  IF StartsAt(s, i, <<"[", "[">>) /\ j > i + 2 /\ StartsAt(s, j, <<"]", "]">>)
             THEN (IF bar # 0 /\ bar < Len(run)
                   THEN SubSeq(run, bar + 1, Len(run)) ELSE run)
                  \o LinkFrom(s, j + 2)
             ELSE <<s[i]>> \o LinkFrom(s, i + 1)

\* r"'{2,}" -> '': runs of two or more quote characters.
RECURSIVE QuotesFrom(_, _)
QuotesFrom(s, i) ==
    IF i > Len(s) THEN <<>>
    ELSE LET j == RunWithin(s, i, {"'"})
         IN  IF j >= i + 2 THEN QuotesFrom(s, j)
             ELSE <<s[i]>> \o QuotesFrom(s, i + 1)

\* r'\{\{[^\}]*\}\}' -> '': "{{", a run without "}", then "}}".
RECURSIVE TemplateFrom(_, _)
TemplateFrom(s, i) ==
    IF i > Len(s) THEN <<>>
    ELSE LET j == RunWithout(s, i + 2, {"}"})
         IN  IF StartsAt(s, i, <<"{", "{">>) /\ StartsAt(s, j, <<"}", "}">>)
             THEN TemplateFrom(s, j + 2)
             ELSE <<s[i]>> \o TemplateFrom(s, i + 1)

\* r'<[^>]+>' -> '': "<", a non-empty run without ">", then ">".
RECURSIVE TagFrom(_, _)
TagFrom(s, i) ==
    IF i > Len(s) THEN <<>>
    ELSE LET j == RunWithout(s, i + 1, {">"})
         IN  IF s[i] = "<" /\ j > i + 1 /\ j <= Len(s)
             THEN TagFrom(s, j + 1)
             ELSE <<s[i]>> \o TagFrom(s, i + 1)

\* r'^\s*[\*\#]\s*' -> '' with re.MULTILINE: at the start of the text or
\* after a line end, whitespace, a list marker and the whitespace after it.
RECURSIVE ListMarkerFrom(_, _)
ListMarkerFrom(s, i) ==
    IF i > Len(s) THEN <<>>
    ELSE LET j == RunWithin(s, i, Whitespace)
         IN  IF (i = 1 \/ s[i - 1] = "\n") /\ j <= Len(s) /\ s[j] \in {"*", "#"}
             THEN ListMarkerFrom(s, RunWithin(s, j + 1, Whitespace))
             ELSE <<s[i]>> \o ListMarkerFrom(s, i + 1)

\* r'\s+' -> ' ': each run of whitespace becomes one space.
RECURSIVE SpaceFrom(_, _)
SpaceFrom(s, i) ==
    IF i > Len(s) THEN <<>>
    ELSE IF s[i] \in Whitespace THEN <<" ">> \o SpaceFrom(s, RunWithin(s, i, Whitespace))
    ELSE <<s[i]>> \o SpaceFrom(s, i + 1)

\* r'\{\{.*?\}\}' -> ''
SubTemplate(value) == RemoveDelimited(value, 1, <<"{", "{">>, <<"}", "}">>, FALSE)

\* r'\[\[File:.*?\]\]' -> ''
SubFile(value) ==
    RemoveDelimited(value, 1, <<"[", "[", "File", ":">>, <<"]", "]">>, FALSE)

Digits == {"0", "1", "2", "3", "4", "5", "6", "7", "8", "9"}

\* r'\[\d+\]' -> '': "[", a non-empty run of digits, then "]".
RECURSIVE CitationFrom(_, _)
CitationFrom(s, i) ==
    IF i > Len(s) THEN <<>>
    ELSE LET j == RunWithin(s, i + 1, Digits)
         IN  IF s[i] = "[" /\ j > i + 1 /\ j <= Len(s) /\ s[j] = "]"
             THEN CitationFrom(s, j + 1)
             ELSE <<s[i]>> \o CitationFrom(s, i + 1)


\* CLEAN_TEXT_PATTERNS: the substitutions in the order of the list, each
\* applied to the result of the one before.
clean(text) ==
    LET refs      == SubRef(text, FALSE)
        comments  == SubComment(refs)
        links     == LinkFrom(comments, 1)
        templates == SubTemplate(links)
        files     == SubFile(templates)
        citations == CitationFrom(files, 1)
        tags      == TagFrom(citations, 1)
        quotes    == QuotesFrom(tags, 1)
        markers   == ListMarkerFrom(quotes, 1)
    IN  SpaceFrom(markers, 1)

(***************************************************************************)
(* The normalisation rules applied to markup, once and again               *)
(***************************************************************************)

\* Most pieces of markup a text handed to the rules is made of.
MaxMarkupPieces == 4

\* The pieces: the two ends of a link, a link separator, a template, a
\* reference with its content, a numeric citation, a tag, a quote run, a
\* word, a space.
MarkupPieces ==
    { <<"[", "[">>, <<"]", "]">>, <<"|">>,
      <<"{", "{", "cite", "}", "}">>,
      <<"<", "ref", ">", "Smith", "<", "/", "ref", ">">>,
      <<"[", "1", "]">>,
      <<"<", "b", ">">>,
      <<"'", "'", "'">>,
      <<"Cancer">>,
      <<" ">> }

RECURSIVE Concat(_)
Concat(pieces) == IF pieces = <<>> THEN <<>> ELSE Head(pieces) \o Concat(Tail(pieces))

\* The text '''Cancer'''[1] is a [[disease]].
ExampleText ==
    <<"'", "'", "'", "Cancer", "'", "'", "'", "[", "1", "]", " ", "is", " ", "a",
      " ", "[", "[", "disease", "]", "]", ".">>

\* The texts of at most n pieces, nested and adjacent combinations included.
MarkupTexts(n) ==
    { Concat(pieces) : pieces \in UNION { [1..k -> MarkupPieces] : k \in 0..n } }
    \cup {ExampleText}

\* The rules are applied to the text, or to the result of the last pass.
Clean ==
    /\ Len(normPasses) < 2
    /\ normPasses' = Append(normPasses,
                            clean(IF normPasses = <<>> THEN normInput
                                  ELSE normPasses[Len(normPasses)]))
    /\ UNCHANGED <<normInput, ingestVars, ragVars, wikiVars, qdrantVars, llmVars, callerVars>>

InitNorm ==
    /\ IngestAtRest
    /\ RagAtRest
    /\ WikiAtRest
    /\ QdrantAtRest
    /\ LlmAtRest
    /\ CallersAtRest
    /\ normInput \in MarkupTexts(MaxMarkupPieces)
    /\ normPasses = <<>>

NextNorm == Clean

SpecNorm == InitNorm /\ [][NextNorm]_vars

(***************************************************************************)
(* WikipediaPageProcessor: the infobox fields of the page                  *)
(***************************************************************************)

\* Most lines of an infobox.
MaxInfoboxLines == 2

\* A value of Python with its type: a str, or a list of str.
PyStr(text) == [type |-> "str", val |-> text]
PyList(items) == [type |-> "list", val |-> items]

\* bool(value) of a str or a list.
Truthy(value) == value.val # <<>>

EmptyDict == [k \in {} |-> <<>>]

DESIRED_FIELDS ==
    ("synonyms" :> << <<"synonyms">>, <<"other_names">>, <<"alias">> >>)
    @@ ("symptoms" :> << <<"symptoms">>, <<"symptom">>, <<"signs_symptoms">>,
                         <<"signs_and_symptoms">> >>)

\* str.split(sep): the pieces between the separators, empty ones included.
RECURSIVE Split(_, _)
Split(s, sep) ==
    LET p == Find(s, 1, <<sep>>, TRUE)
    IN  IF p = 0 THEN <<s>>
        ELSE <<SubSeq(s, 1, p - 1)>> \o Split(SubSeq(s, p + 1, Len(s)), sep)

\* [item.strip() for item in items if item.strip()]
RECURSIVE StripItems(_)
StripItems(items) ==
    IF items = <<>> THEN <<>>
    ELSE (IF Strip(Head(items)) # <<>> THEN <<Strip(Head(items))>> ELSE <<>>)
         \o StripItems(Tail(items))

\* any(field in DESIRED_FIELDS['synonyms'] for field in DESIRED_FIELDS['synonyms'])
ListLike ==
    \E k \in 1..Len(DESIRED_FIELDS["synonyms"]) :
        \E j \in 1..Len(DESIRED_FIELDS["synonyms"]) :
            DESIRED_FIELDS["synonyms"][k] = DESIRED_FIELDS["synonyms"][j]

\* WikipediaPageProcessor.clean_wiki_value
clean_wiki_value(value) ==
    IF value = <<>> THEN PyStr(<<>>)
    ELSE LET comments  == SubComment(value)
             refs      == SubRef(comments, TRUE)
             links     == LinkFrom(refs, 1)
             quotes    == QuotesFrom(links, 1)
             templates == TemplateFrom(quotes, 1)
             tags      == TagFrom(templates, 1)
             markers   == ListMarkerFrom(tags, 1)
             spaces    == SpaceFrom(Strip(markers), 1)
         IN  IF ListLike THEN PyList(StripItems(Split(spaces, ",")))
             ELSE PyStr(spaces)

\* str.lower() on the elements of a text.
ToLower(c) ==
    CASE c = "Synonyms" -> "synonyms"
      [] c = "Alias"    -> "alias"
      [] OTHER          -> c

Lower(text) == [k \in 1..Len(text) |-> ToLower(text[k])]

\* re.match(r"\|\s*(.*?)\s*=\s*(.*)", line): the line starts with "|" and
\* holds "="; the key is what stands before the first "=", the value what
\* stands after it.
LineMatches(line) ==
    /\ line # <<>>
    /\ line[1] = "|"
    /\ Find(line, 2, <<"=">>, TRUE) # 0

LineKey(line) == Lower(Strip(SubSeq(line, 2, Find(line, 2, <<"=">>, TRUE) - 1)))

LineValue(line) == Strip(SubSeq(line, Find(line, 2, <<"=">>, TRUE) + 1, Len(line)))

\* The loop of extract_metadata_from_infobox over the lines from i on.
RECURSIVE MetadataFrom(_, _, _)
MetadataFrom(lines, i, metadata) ==
    IF i > Len(lines) THEN metadata
    ELSE IF /\ LineMatches(lines[i])
            /\ LineKey(lines[i]) # <<>>
            /\ LineValue(lines[i]) # <<>>
    THEN MetadataFrom(lines, i + 1,
                      (LineKey(lines[i]) :> LineValue(lines[i])) @@ metadata)
    ELSE MetadataFrom(lines, i + 1, metadata)

\* WikipediaPageProcessor.extract_metadata_from_infobox
extract_metadata_from_infobox(infobox_text) ==
    MetadataFrom(Split(infobox_text, "\n"), 1, EmptyDict)

\* re.search(r"\{\{Infobox.*?\}\}", text, flags=re.DOTALL): None, or the
\* text from the first "{{Infobox" to the first "}}" after it.
InfoboxMatch(text) ==
    LET start == Find(text, 1, <<"{", "{", "Infobox">>, TRUE)
        end   == Find(text, start + 3, <<"}", "}">>, TRUE)
    IN  IF start # 0 /\ end # 0 THEN Some(SubSeq(text, start, end + 1)) ELSE None

\* "if value:" of parse_infobox: a cleaned value is taken when it is not empty.
FieldTakenAlways(value) == TRUE

FieldTaken(value) == Truthy(value)

\* The loop of parse_infobox over the possible keys of one field, from the
\* k-th on: the first key of the infobox whose cleaned value is taken.
RECURSIVE FieldFrom(_, _, _, _)
FieldFrom(raw_metadata, possible_keys, k, initial) ==
    IF k > Len(possible_keys) THEN initial
    ELSE IF /\ possible_keys[k] \in DOMAIN raw_metadata
            /\ FieldTaken(clean_wiki_value(raw_metadata[possible_keys[k]]))
    THEN clean_wiki_value(raw_metadata[possible_keys[k]])
    ELSE FieldFrom(raw_metadata, possible_keys, k + 1, initial)

\* cleaned_metadata = {'synonyms': [], 'symptoms': ''}
InitialFields == ("synonyms" :> PyList(<<>>)) @@ ("symptoms" :> PyStr(<<>>))

\* {k: v for k, v in cleaned_metadata.items() if v}
WithoutEmpty(cleaned_metadata) ==
    [k \in { f \in DOMAIN cleaned_metadata : Truthy(cleaned_metadata[f]) }
        |-> cleaned_metadata[k]]

\* WikipediaPageProcessor.parse_infobox: self.metadata after the call, given
\* self.wikitext and self.metadata before it.
parse_infobox(text, metadata) ==
    IF IsNone(text) \/ text[1] = <<>> THEN metadata
    ELSE LET infobox_match == InfoboxMatch(text[1])
         IN  IF ~IsNone(infobox_match)
             THEN LET raw_metadata == extract_metadata_from_infobox(infobox_match[1])
                  IN  WithoutEmpty([target_field \in DOMAIN DESIRED_FIELDS |->
                          FieldFrom(raw_metadata, DESIRED_FIELDS[target_field], 1,
                                    InitialFields[target_field])])
             ELSE EmptyDict

\* One line of an infobox: "| key = value".
InfoboxLine(key, value) == <<"|", " ">> \o key \o <<" ", "=", " ">> \o value \o <<"\n">>

\* The keys and the values of the infobox lines of the fetched pages.
InfoboxKeys ==
    { <<"synonyms">>, <<"other_names">>, <<"Alias">>, <<"signs_and_symptoms">>,
      <<"name">> }

InfoboxValues ==
    { <<"BCC", ",", " ", "Basalioma">>,
      <<"[", "[", "Skin", "|", "Lesion", "]", "]">>,
      <<"'", "'">>,
      <<"{", "{", "hlist", "}", "}">>,
      <<>> }

\* A page whose markup opens with an infobox of the given lines.
InfoboxPage(lines) ==
    <<"{", "{", "Infobox", " ", "medical", "\n">> \o Concat(lines)
    \o <<"}", "}", "\n", "'", "'", "'", "Cancer", "'", "'", "'">>

\* The markup the page source returns: a page with an infobox of at most n
\* lines, a page without one, an empty page.
Wikitexts(n) ==
    { InfoboxPage(lines) : lines \in UNION { [1..k -> { InfoboxLine(key, value) :
                                         key \in InfoboxKeys, value \in InfoboxValues }] : k \in 0..n } }
    \cup { <<"'", "'", "'", "Cancer", "'", "'", "'">>, <<>> }

\* fetch_wikitext: the page source returns the markup, the infobox is parsed.
FetchWikitext ==
    /\ IsNone(wikitext)
    /\ \E text \in Wikitexts(MaxInfoboxLines) :
         /\ wikitext' = Some(text)
         /\ self_metadata' = parse_infobox(Some(text), self_metadata)
    /\ UNCHANGED <<soup, chunks, extracted,
                   ingestVars, ragVars, normVars, qdrantVars, llmVars, callerVars>>

InitInfobox ==
    /\ IngestAtRest
    /\ RagAtRest
    /\ WikiAtRest
    /\ NormAtRest
    /\ QdrantAtRest
    /\ LlmAtRest
    /\ CallersAtRest

NextInfobox == FetchWikitext

SpecInfobox == InitInfobox /\ [][NextInfobox]_vars

(***************************************************************************)
(* WikipediaPageProcessor: text and table chunks of the rendered page      *)
(***************************************************************************)

\* Largest size of a rendered page: two per element, one per character of
\* its text, two per row of its table.
MaxSoupSize == 7

page_title == <<"P">>

\* The characters of the text of a heading or paragraph.
Alphabet == { "a", " ", "[", "]" }

Texts(n) == UNION { [1..k -> Alphabet] : k \in 0..n }

\* re.sub(r"\[.*?\]", "", text): each "[", with the nearest "]" after it and
\* what is between them, is removed, scanning from the left.
RECURSIVE RemoveBrackets(_)
RemoveBrackets(text) ==
    IF text = <<>> THEN <<>>
    ELSE IF Head(text) = "[" /\ \E j \in 2..Len(text) : text[j] = "]"
    THEN LET j == CHOOSE j \in 2..Len(text) :
                      text[j] = "]" /\ \A k \in 2..(j - 1) : text[k] # "]"
         IN  RemoveBrackets(SubSeq(text, j + 1, Len(text)))
    ELSE <<Head(text)>> \o RemoveBrackets(Tail(text))

\* A cell of a parsed table: a value, or NaN where pandas found none.
NaN == [null |-> TRUE, val |-> ""]
Cell(v) == [null |-> FALSE, val |-> v]

TableColumns == <<"A", "B">>

\* The rows of a rendered table: complete, with an empty second cell, or
\* with the second cell absent.
Rows == { <<"x", "y">>, <<"x", "">>, <<"x">> }

\* The rendered tables: one without any row or header (where read_html finds
\* no table), and those with the header A, B and some rows.
NoTable == [header |-> <<>>, rows |-> <<>>]
Tables(n) ==
    {NoTable} \cup { [header |-> TableColumns, rows |-> rs] :
                       rs \in UNION { [1..k -> Rows] : k \in 0..n } }

\* The elements of the rendered page: headings (h2 for sections, h3 for
\* their subsections) and paragraphs with their text, tables with their
\* classes.
TextElement(name, text) ==
    [name |-> name, text |-> text, class |-> {}, table |-> NoTable]
TableElement(class, table) ==
    [name |-> "table", text |-> <<>>, class |-> class, table |-> table]

SizeOf(element) ==
    IF element.name = "table" THEN 2 + 2 * Len(element.table.rows)
    ELSE 2 + Len(element.text)

\* The elements of size at most n.
Elements(n) ==
    IF n < 2 THEN {}
    ELSE { TextElement(name, text) : name \in {"h2", "h3", "p"}, text \in Texts(n - 2) }
         \cup { TableElement(class, table) :
                  class \in { {"wikitable"}, {} }, table \in Tables((n - 2) \div 2) }

\* The rendered pages of size at most n, in document order.
RECURSIVE Soups(_)
Soups(n) ==
    {<<>>} \cup UNION { { <<e>> \o rest : rest \in Soups(n - SizeOf(e)) } : e \in Elements(n) }

\* The text chunk of a paragraph under the current section.
TextChunk(current_section, text) ==
    [metadata |-> ("heading" :> current_section) @@ self_metadata
                  @@ ("page_title" :> page_title),
     kind     |-> "text",
     content  |-> text]

\* WikipediaPageProcessor.extract_text_chunks: the chunks appended for the
\* elements from position i on, current_section being the section so far.
RECURSIVE TextChunksFrom(_, _, _)
TextChunksFrom(elements, i, current_section) ==
    IF i > Len(elements) THEN <<>>
    ELSE LET element == elements[i]
         IN  IF element.name = "h2"
             THEN TextChunksFrom(elements, i + 1, RemoveBrackets(Strip(element.text)))
             ELSE IF element.name = "p"
             THEN LET text == RemoveBrackets(Strip(element.text))
                  IN  (IF text # <<>> THEN <<TextChunk(current_section, text)>> ELSE <<>>)
                      \o TextChunksFrom(elements, i + 1, current_section)
             ELSE TextChunksFrom(elements, i + 1, current_section)

extract_text_chunks(elements) == TextChunksFrom(elements, 1, <<"Introduction">>)

\* pd.read_html(str(element)) raises ValueError when it finds no table.
ReadHtmlRaises(table) == table.header = <<>>

\* pd.read_html(str(element))[0].to_dict(orient="records"): one record per
\* row, a column without a value in the row holding NaN.
ToRecords(table) ==
    [r \in 1..Len(table.rows) |->
        [c \in { table.header[k] : k \in 1..Len(table.header) } |->
            LET k == CHOOSE k \in 1..Len(table.header) : table.header[k] = c
            IN  IF k <= Len(table.rows[r]) /\ table.rows[r][k] # ""
                THEN Cell(table.rows[r][k])
                ELSE NaN]]

\* A plausible slip: the table chunk is tagged with the default section, the
\* heading met on the way being lost.
TableChunkUntagged(current_heading, table) ==
    [metadata |-> self_metadata @@ ("page_title" :> page_title)
                  @@ ("heading" :> <<"Introduction">>),
     kind     |-> "table",
     content  |-> ToRecords(table)]

\* The table chunk of a wiki table under the current heading.
TableChunk(current_heading, table) ==
    [metadata |-> self_metadata @@ ("page_title" :> page_title)
                  @@ ("heading" :> current_heading),
     kind     |-> "table",
     content  |-> ToRecords(table)]

\* WikipediaPageProcessor.extract_table_chunks, from position i on.
RECURSIVE TableChunksFrom(_, _, _)
TableChunksFrom(elements, i, current_heading) ==
    IF i > Len(elements) THEN <<>>
    ELSE LET element == elements[i]
         IN  IF element.name = "h2"
             THEN TableChunksFrom(elements, i + 1, RemoveBrackets(Strip(element.text)))
             ELSE IF element.name = "table" /\ "wikitable" \in element.class
             THEN (IF ReadHtmlRaises(element.table) THEN <<>>
                   ELSE <<TableChunk(current_heading, element.table)>>)
                  \o TableChunksFrom(elements, i + 1, current_heading)
             ELSE TableChunksFrom(elements, i + 1, current_heading)

extract_table_chunks(elements) == TableChunksFrom(elements, 1, <<"Introduction">>)

Ran(method) == \E k \in 1..Len(extracted) : extracted[k] = method

\* parse_html_content: the page source returns the rendered page.
ParseHtmlContent ==
    /\ IsNone(soup)
    /\ \E elements \in Soups(MaxSoupSize) : soup' = Some(elements)
    /\ UNCHANGED <<self_metadata, chunks, extracted, wikitext,
                   ingestVars, ragVars, normVars, qdrantVars, llmVars, callerVars>>

ExtractTextChunks ==
    /\ ~IsNone(soup)
    /\ ~Ran("extract_text_chunks")
    /\ chunks' = chunks \o extract_text_chunks(soup[1])
    /\ extracted' = Append(extracted, "extract_text_chunks")
    /\ UNCHANGED <<self_metadata, soup, wikitext,
                   ingestVars, ragVars, normVars, qdrantVars, llmVars, callerVars>>

ExtractTableChunks ==
    /\ ~IsNone(soup)
    /\ ~Ran("extract_table_chunks")
    /\ chunks' = chunks \o extract_table_chunks(soup[1])
    /\ extracted' = Append(extracted, "extract_table_chunks")
    /\ UNCHANGED <<self_metadata, soup, wikitext,
                   ingestVars, ragVars, normVars, qdrantVars, llmVars, callerVars>>

\* create_chunks: parse, then the text chunks, then the table chunks.
CreateChunks ==
    /\ IsNone(soup)
    /\ extracted = <<>>
    /\ \E elements \in Soups(MaxSoupSize) :
         /\ soup' = Some(elements)
         /\ chunks' = chunks \o extract_text_chunks(elements)
                             \o extract_table_chunks(elements)
    /\ extracted' = <<"extract_text_chunks", "extract_table_chunks">>
    /\ UNCHANGED <<self_metadata, wikitext,
                   ingestVars, ragVars, normVars, qdrantVars, llmVars, callerVars>>

\* The markup of the pages whose rendered content is chunked: one without
\* an infobox, one whose infobox names synonyms, symptoms and a heading.
PageWikitexts ==
    { <<"'", "'", "'", "Cancer", "'", "'", "'">>,
      InfoboxPage(<< InfoboxLine(<<"other_names">>, <<"BCC", ",", " ", "Basalioma">>),
                     InfoboxLine(<<"signs_and_symptoms">>, <<"Lesion">>),
                     InfoboxLine(<<"heading">>, <<"Lesion">>) >>) }

InitWiki ==
    /\ IngestAtRest
    /\ RagAtRest
    /\ NormAtRest
    /\ QdrantAtRest
    /\ LlmAtRest
    /\ CallersAtRest
    /\ \E text \in PageWikitexts :
         /\ wikitext = Some(text)
         /\ self_metadata = parse_infobox(Some(text), EmptyDict)
    /\ soup = None
    /\ chunks = <<>>
    /\ extracted = <<>>

NextWiki == ParseHtmlContent \/ ExtractTextChunks \/ ExtractTableChunks \/ CreateChunks

SpecWiki == InitWiki /\ [][NextWiki]_vars

(***************************************************************************)
(* Claims about the collection and the search of the QdrantManager         *)
(***************************************************************************)

\* The stored points that match the filter conditions of the search call.
MatchingIds ==
    { id \in DOMAIN store :
        IsNone(qdrantCall.filter_conditions)
        \/ \A key \in DOMAIN qdrantCall.filter_conditions[1] :
              store[id].payload.metadata[key] = qdrantCall.filter_conditions[1][key] }

Searched == qdrantCall.op = "search" /\ qdrantCall.outcome = "returned"

\* The result is the stored point id scored as the index service scored it.
IsHit(result, id) ==
    /\ result.metadata = store[id].payload.metadata
    /\ result.text = store[id].payload.text
    /\ result.score = qdrantCall.similarity[id]

(***************************************************************************)
(* C13. Search without a floor: search returns the nearest neighbours that *)
(* match the filter, at most limit of them and in descending order of      *)
(* score, and drops no matching neighbour among the limit nearest because  *)
(* its score is low (scores below 0 included): it returns                  *)
(* min(limit, number of matching points) results, and no matching point    *)
(* scores above a returned one without being returned.                     *)
(***************************************************************************)
C13_SearchNoScoreFloor ==
    Searched =>
        LET results == qdrantCall.results
        IN  /\ Len(results) = Min(qdrantCall.limit, Cardinality(MatchingIds))
            /\ \A k \in 1..Len(results) : \E id \in MatchingIds : IsHit(results[k], id)
            /\ \A k \in 1..(Len(results) - 1) : results[k].score >= results[k + 1].score
            /\ \A id \in MatchingIds :
                 (\A k \in 1..Len(results) : results[k].score < qdrantCall.similarity[id])
                 => Len(results) = 0 /\ MatchingIds = {}

Ensured == qdrantCall.op = "get_or_create_collection"

(***************************************************************************)
(* C14. get_or_create_collection is idempotent: called when the collection *)
(* exists it creates nothing and leaves the collection (configuration and  *)
(* points) as it was; called when it is absent it creates it with the size *)
(* of the probe embedding and cosine distance; after any sequence of       *)
(* sequential calls the collection has been created exactly once, and no   *)
(* call fails.                                                             *)
(***************************************************************************)
C14_EnsureCollectionIdempotent ==
    /\ Ensured =>
         /\ qdrantCall.outcome = "returned"
         /\ createCalls = 1
         /\ collection = Some([size     |-> Len(generate_embedding(SampleText)),
                               distance |-> "Cosine"])
         /\ ~IsNone(qdrantCall.before.collection) =>
                /\ collection = qdrantCall.before.collection
                /\ createCalls = qdrantCall.before.createCalls
                /\ store = qdrantCall.before.store
    /\ createCalls <= 1
    /\ createCalls = 1 <=> ~IsNone(collection)

\* A call found the collection, with points in it, and left it alone.
C14_Witness ==
    /\ Ensured
    /\ ~IsNone(qdrantCall.before.collection)
    /\ qdrantCall.outcome = "returned"
    /\ DOMAIN store # {}

\* A call found no collection and created it.
C14_WitnessCreated ==
    /\ Ensured
    /\ IsNone(qdrantCall.before.collection)
    /\ createCalls = 1

(***************************************************************************)
(* Claims about the normalisation rules                                    *)
(***************************************************************************)

(***************************************************************************)
(* C15. Normalisation idempotence: applying the ordered rules to a text    *)
(* that was already normalised changes nothing, clean(clean(x)) =          *)
(* clean(x), for every text made of markup pieces (links, templates,       *)
(* references, numeric citations, tags, quote runs), nested and adjacent   *)
(* combinations included.                                                  *)
(***************************************************************************)
C15_NormalizationIdempotent ==
    Len(normPasses) = 2 => normPasses[2] = normPasses[1]

\* The example of the claim: the text is normalised to "Cancer is a
\* disease." by the first pass and left so by the second.
C15_ExampleNormalized ==
    normInput = ExampleText =>
        \A k \in 1..Len(normPasses) :
            normPasses[k] = <<"Cancer", " ", "is", " ", "a", " ", "disease", ".">>

(***************************************************************************)
(* Claims about the infobox fields                                         *)
(***************************************************************************)

\* The raw metadata of the infobox of the fetched markup.
RawMetadata == extract_metadata_from_infobox(InfoboxMatch(wikitext[1])[1])

\* The positions, in the list of possible keys of a field, of the keys the
\* infobox holds with a cleaned value that is not empty.
FilledAliases(field) ==
    { k \in 1..Len(DESIRED_FIELDS[field]) :
        /\ DESIRED_FIELDS[field][k] \in DOMAIN RawMetadata
        /\ clean_wiki_value(RawMetadata[DESIRED_FIELDS[field][k]]).val # <<>> }

FirstFilledAlias(field) ==
    DESIRED_FIELDS[field][CHOOSE k \in FilledAliases(field) :
                              \A j \in FilledAliases(field) : k <= j]

HasInfobox == ~IsNone(wikitext) /\ ~IsNone(InfoboxMatch(wikitext[1]))

C12_InfoboxFieldTypes ==
    \A n \in 1..Len(chunks) :
        /\ "synonyms" \in DOMAIN chunks[n].metadata
               => chunks[n].metadata["synonyms"].type = "list"
        /\ "symptoms" \in DOMAIN chunks[n].metadata
               => chunks[n].metadata["symptoms"].type = "str"

(***************************************************************************)
(* Claims about the page processor                                         *)
(***************************************************************************)

TableChunks == SelectSeq(chunks, LAMBDA c : c.kind = "table")
TextChunks == SelectSeq(chunks, LAMBDA c : c.kind = "text")

\* The wiki tables of the rendered page that read_html can read, in order.
ReadableWikiTables ==
    SelectSeq(soup[1], LAMBDA e : /\ e.name = "table"
                                  /\ "wikitable" \in e.class
                                  /\ e.table.header # <<>>)

\* The rendered row has a value for its k-th column.
HasValue(row, k) == k <= Len(row) /\ row[k] # ""

(***************************************************************************)
(* C9. Table cell placeholder: every record of every table chunk has a     *)
(* non-null value for each column, and a cell missing in the source row is *)
(* the literal string "Unknown".                                           *)
(***************************************************************************)
C9_TableCellPlaceholder ==
    /\ \A n \in 1..Len(TableChunks) :
         \A r \in 1..Len(TableChunks[n].content) :
           \A c \in DOMAIN TableChunks[n].content[r] :
             ~TableChunks[n].content[r][c].null
    /\ Ran("extract_table_chunks") =>
         \A n \in 1..Len(ReadableWikiTables) :
           LET table == ReadableWikiTables[n].table
           IN  \A r \in 1..Len(table.rows) :
                 \A k \in 1..Len(table.header) :
                   ~HasValue(table.rows[r], k)
                   => TableChunks[n].content[r][table.header[k]] = Cell("Unknown")

(***************************************************************************)
(* C10. No blank chunks: no text chunk appended to self.chunks has content *)
(* that is empty or consists only of whitespace.                           *)
(***************************************************************************)
C10_NoBlankTextChunk ==
    \A n \in 1..Len(TextChunks) : Strip(TextChunks[n].content) # <<>>

(***************************************************************************)
(* Claims about the answer path                                            *)
(***************************************************************************)

\* The last call was get_response and it returned a response.
Answered == ragCall.op = "get_response" /\ ragCall.did.outcome = "returned"

\* The invocations of the response chain during the call.
ResponseCalls(llm) == SelectSeq(llm, LAMBDA c : c.chain = "response")
RefinementCalls(llm) == SelectSeq(llm, LAMBDA c : c.chain = "refinement")

SourceBlocks(context) == SelectSeq(context, LAMBDA b : b.kind = "source")

(***************************************************************************)
(* C2. Threshold consistency: when get_response returns for a non-empty    *)
(* result list, 'sources' holds exactly one source per result whose score  *)
(* is at least the configured threshold, in the order of the results, and  *)
(* 'relevant_results' is the length of 'sources'.                          *)
(***************************************************************************)
C2_ThresholdConsistency ==
    (Answered /\ ragCall.did.results # <<>>) =>
        LET rs      == ragCall.did.results
            sources == ragCall.did.value.sources
            kept    == { i \in 1..Len(rs) : rs[i].score >= score_threshold }
        IN  /\ Len(sources) = Cardinality(kept)
            /\ ragCall.did.value.relevant_results = Len(sources)
            /\ \A i \in kept :
                 LET k == Cardinality({ j \in kept : j <= i })
                 IN  /\ sources[k].score = rs[i].score
                     /\ sources[k].title =
                          (IF "page_title" \in DOMAIN rs[i].metadata
                           THEN rs[i].metadata["page_title"] ELSE "Unknown")
                     /\ sources[k].section =
                          (IF "heading" \in DOMAIN rs[i].metadata
                           THEN rs[i].metadata["heading"] ELSE "N/A")

\* A returned answer over two results, one at the threshold and kept, one
\* below it and dropped.
C2_Witness ==
    /\ Answered
    /\ Len(ragCall.did.results) = 2
    /\ ragCall.did.results[1].score = score_threshold
    /\ ragCall.did.results[2].score < score_threshold
    /\ Len(ragCall.did.value.sources) = 1

(***************************************************************************)
(* C3. Grounding matches sources: when get_response returns after          *)
(* generation, the 'Source' blocks of the context given to the response    *)
(* chain render exactly the results listed in 'sources', in the same       *)
(* order.                                                                  *)
(***************************************************************************)
C3_ContextMatchesSources ==
    (Answered /\ ragCall.did.results # <<>>) =>
        LET rs      == ragCall.did.results
            calls   == ResponseCalls(ragCall.did.llm)
            blocks  == SourceBlocks(calls[1].context)
            sources == ragCall.did.value.sources
        IN  /\ Len(calls) = 1
            /\ Len(blocks) = Len(sources)
            /\ \A k \in 1..Len(blocks) :
                 /\ blocks[k].i \in 1..Len(rs)
                 /\ k > 1 => blocks[k - 1].i < blocks[k].i
                 /\ blocks[k].content = rs[blocks[k].i].text
                 /\ blocks[k].title = sources[k].title
                 /\ blocks[k].section = sources[k].section
                 /\ rs[blocks[k].i].score = sources[k].score
            /\ \A i \in 1..Len(rs) :
                 (\E k \in 1..Len(blocks) : blocks[k].i = i)
                 <=> rs[i].score >= score_threshold

\* A returned answer with history, whose context rendered the one result at
\* the threshold and not the one below it.
C3_Witness ==
    /\ Answered
    /\ ragCall.did.history # <<>>
    /\ Len(ragCall.did.results) = 2
    /\ ragCall.did.results[1].score = score_threshold
    /\ ragCall.did.results[2].score < score_threshold
    /\ Len(SourceBlocks(ResponseCalls(ragCall.did.llm)[1].context)) = 1

\* The search of the last get_response call returned no result.
EmptySearch ==
    /\ ragCall.op = "get_response"
    /\ ragCall.did.searched
    /\ ragCall.did.searchOk
    /\ ragCall.did.results = <<>>

\* What get_response gives its caller when the search finds nothing.
NoInfoReturned ==
    /\ ragCall.did.outcome = "returned"
    /\ ragCall.did.value.response = NoInfoMessage
    /\ ragCall.did.value.sources = <<>>
    /\ ragCall.did.value.relevant_results = 0

(***************************************************************************)
(* C4, as claimed. Empty-search short-circuit: when the search returns no  *)
(* result, get_response returns the fixed message with no sources and      *)
(* relevant_results = 0, and the language model is not invoked at all      *)
(* during the call, whatever the history.                                  *)
(***************************************************************************)
C4_EmptySearchNeverInvokesModel ==
    EmptySearch => (NoInfoReturned /\ ragCall.did.llm = <<>>)

(***************************************************************************)
(* C4, amended. When the search returns no result, get_response returns    *)
(* the fixed message with no sources and relevant_results = 0 and never    *)
(* runs the response chain; the language model is invoked at most once, by *)
(* query refinement before the search, and only for a history of two or    *)
(* more turns.                                                             *)
(***************************************************************************)
C4_EmptySearchNoAnswerGeneration ==
    EmptySearch =>
        /\ NoInfoReturned
        /\ ResponseCalls(ragCall.did.llm) = <<>>
        /\ Len(ragCall.did.llm) <= 1
        /\ Len(ragCall.did.history) < 2 => ragCall.did.llm = <<>>

\* An empty search after a refinement that did run (history of two turns).
C4_Witness ==
    /\ EmptySearch
    /\ Len(ragCall.did.history) >= 2
    /\ Len(RefinementCalls(ragCall.did.llm)) = 1
    /\ ragCall.did.outcome = "returned"

\* The number of turns of an optional history.
TurnCount(conversation_history) ==
    IF IsNone(conversation_history) THEN 0 ELSE Len(conversation_history[1])

(***************************************************************************)
(* C5. Refinement no-op on short history: for a history of fewer than two  *)
(* turns (None and the empty list included) _refine_query returns the      *)
(* query unchanged and does not invoke the language model; get_response    *)
(* then searches for the query as given.                                   *)
(***************************************************************************)
C5_ShortHistoryNoRefinement ==
    /\ (ragCall.op = "refine_query" /\ TurnCount(ragCall.asked.conversation_history) < 2)
       => /\ ~ragCall.did.raised
          /\ ragCall.did.query = ragCall.asked.query
          /\ ragCall.did.llm = <<>>
    /\ (ragCall.op = "get_response" /\ TurnCount(ragCall.asked.conversation_history) < 2)
       => /\ ragCall.did.searched
          /\ ragCall.did.searchText = ragCall.did.query
          /\ RefinementCalls(ragCall.did.llm) = <<>>

\* _refine_query called with one turn of history and a query with leading
\* whitespace.
C5_Witness ==
    /\ ragCall.op = "refine_query"
    /\ TurnCount(ragCall.asked.conversation_history) = 1
    /\ ragCall.asked.query = <<" ", "q">>
    /\ ragCall.did.query = <<" ", "q">>

\* The refinement chain was run during the last call and raised.
RefinementFailed ==
    /\ ragCall.did.llm # <<>>
    /\ ragCall.did.llm[1].chain = "refinement"
    /\ ~ragCall.did.llm[1].ok

(***************************************************************************)
(* C6. Refinement is best-effort: when the language model fails while      *)
(* refining, _refine_query returns the original query; get_response goes   *)
(* on to search for the original query and, when there are results, to     *)
(* run the response chain on the original query, and it returns unless the *)
(* search or the response chain itself fails.                              *)
(***************************************************************************)
C6_RefinementBestEffort ==
    /\ (ragCall.op = "refine_query" /\ RefinementFailed)
       => /\ ~ragCall.did.raised
          /\ ragCall.did.query = ragCall.asked.query
    /\ (ragCall.op = "get_response" /\ RefinementFailed)
       => /\ ragCall.did.searched
          /\ ragCall.did.searchText = ragCall.did.query
          /\ (ragCall.did.searchOk /\ ragCall.did.results # <<>>)
             => /\ Len(ragCall.did.llm) = 2
                /\ ragCall.did.llm[2].chain = "response"
                /\ ragCall.did.llm[2].query = ragCall.did.query
                /\ ragCall.did.llm[2].ok => ragCall.did.outcome = "returned"
          /\ (ragCall.did.searchOk /\ ragCall.did.results = <<>>)
             => ragCall.did.outcome = "returned"

\* A get_response call whose refinement failed and which still returned a
\* generated answer with a source.
C6_Witness ==
    /\ ragCall.op = "get_response"
    /\ RefinementFailed
    /\ ragCall.did.outcome = "returned"
    /\ Len(ragCall.did.llm) = 2
    /\ ragCall.did.value.response \in ResponseTexts
    /\ ragCall.did.value.sources # <<>>

\* In a get_response record: the search raised, or the response chain raised.
SearchFailed(did) == did.searched /\ ~did.searchOk
GenerationFailed(did) ==
    \E k \in 1..Len(did.llm) : did.llm[k].chain = "response" /\ ~did.llm[k].ok

(***************************************************************************)
(* C8. Failure of a non-best-effort step is surfaced: when the search      *)
(* fails, get_response raises without running the response chain; when the *)
(* response chain fails, get_response raises; and run_bot, built on        *)
(* get_response, then gives its caller an error, not a response value.     *)
(***************************************************************************)
C8_FailureSurfaced ==
    /\ (ragCall.op = "get_response" /\ SearchFailed(ragCall.did))
       => /\ ragCall.did.outcome = "raised"
          /\ ResponseCalls(ragCall.did.llm) = <<>>
    /\ (ragCall.op = "get_response" /\ GenerationFailed(ragCall.did))
       => ragCall.did.outcome = "raised"
    /\ (/\ ragCall.op = "run_bot"
        /\ ragCall.did.called
        /\ (SearchFailed(ragCall.did.inner) \/ GenerationFailed(ragCall.did.inner)))
       => ragCall.did.outcome = "raised"

\* The ids of the points an ingest call had to store: one per chunk of the
\* batch whose embedding did not fail.
IdsOf(points) == { points[k].id : k \in 1..Len(points) }

(***************************************************************************)
(* C1. Ingestion is idempotent: when ingest has returned for two lists and *)
(* is called again with the same two lists (the embedding capability       *)
(* answering for the same chunks as the first time), the collection holds  *)
(* exactly the same points (same ids, same count, same payloads) as after  *)
(* the first call, whether the second call stores or is refused.           *)
(***************************************************************************)
C1_IngestIdempotent ==
    [][ ( /\ ingestPc = "done"
          /\ ingestPc' = "redone"
          /\ ingestCall.outcome = "returned"
          /\ ingestCall'.embedBad = ingestCall.embedBad )
        => store' = store ]_vars

\* A second call over a batch of two chunks with two different ids, both
\* calls having embedded and stored every chunk.
C1_Witness ==
    /\ ingestPc = "redone"
    /\ ingestCall.prev.outcome = "returned"
    /\ ingestCall.prev.embedBad = {}
    /\ ingestCall.outcome = "returned"
    /\ ingestCall.embedBad = {}
    /\ Len(ingestCall.points) = 2
    /\ Cardinality(IdsOf(ingestCall.points)) = 2
    /\ IdsOf(ingestCall.points) = DOMAIN store

(***************************************************************************)
(* C7. Partial-failure tolerance of ingest: after an ingest call, every    *)
(* chunk of the batch whose own embedding did not fail and whose own point *)
(* the index service did not refuse is stored under its id, and the call   *)
(* did not abort.                                                          *)
(***************************************************************************)
C7_PartialFailureTolerance ==
    ingestCall.op = "ingest" =>
        \A i \in 1..Min(Len(ingestCall.documents), Len(ingestCall.metadata)) :
            LET content == ContentOf(ingestCall.documents[i])
            IN  (content \notin ingestCall.embedBad /\ content \notin ingestCall.rejected)
                => /\ generate_chunk_hash(content, ingestCall.metadata[i]) \in DOMAIN store
                   /\ ingestCall.outcome = "returned"

(***************************************************************************)
(* C16. run_bot with interactive=False gives its caller, for every query   *)
(* (the empty one and None included, both the value <<>> here) and whether *)
(* or not the construction of the RAGModule or get_response raises, a dict *)
(* with the keys response and sources: it never returns None and never     *)
(* raises.                                                                 *)
(***************************************************************************)
C16_RunBotAlwaysReturnsDict ==
    ragCall.op = "run_bot" =>
        /\ ragCall.did.outcome = "returned"
        /\ ~IsNone(ragCall.did.value)
        /\ {"response", "sources"} \subseteq DOMAIN ragCall.did.value[1]

\* The grounding set of a get_response call whose search returned: the
\* results whose score reaches the threshold.
GroundingSet(did) ==
    { k \in 1..Len(did.results) : did.results[k].score >= score_threshold }

(***************************************************************************)
(* C20. No generation without grounding: get_response never runs the       *)
(* response chain when the grounding set is empty, that is when no search  *)
(* result has a score of at least the threshold, be it that the search     *)
(* returned nothing or that every result it returned is below the          *)
(* threshold.                                                              *)
(***************************************************************************)
C20_NoGenerationWithoutGrounding ==
    (/\ ragCall.op = "get_response"
     /\ ragCall.did.searched
     /\ ragCall.did.searchOk
     /\ GroundingSet(ragCall.did) = {})
    => ResponseCalls(ragCall.did.llm) = <<>>

\* The models the chains of the request threads were given.
ChainLlms ==
    { threadLlm[t].refinement[1] : t \in { u \in Threads : ~IsNone(threadLlm[u].refinement) } }
    \cup { threadLlm[t].response[1] : t \in { u \in Threads : ~IsNone(threadLlm[u].response) } }

(***************************************************************************)
(* C17. Singleton LLM: all RAGModule instances of a process share one LLM  *)
(* instance, and the LLM is constructed at most once however many          *)
(* RAGModule instances are created, requests that each construct a         *)
(* RAGModule being handled concurrently included.                          *)
(***************************************************************************)
C17_SingletonLlm ==
    /\ constructions <= 1
    /\ Cardinality(ChainLlms) <= 1

(***************************************************************************)
(* Claims about the section and the order of the chunks                    *)
(***************************************************************************)

Positions == [k \in 1..Len(soup[1]) |-> k]

\* The positions, in the rendered page, of the paragraphs that yield a text
\* chunk and of the wiki tables that yield a table chunk, in document order.
TextSources ==
    SelectSeq(Positions, LAMBDA k : /\ soup[1][k].name = "p"
                                    /\ RemoveBrackets(Strip(soup[1][k].text)) # <<>>)

TableSources ==
    SelectSeq(Positions, LAMBDA k : /\ soup[1][k].name = "table"
                                    /\ "wikitable" \in soup[1][k].class
                                    /\ soup[1][k].table.header # <<>>)

\* The cleaned text of the last element, among those of the given names,
\* that precedes the position, or "Introduction" when none does.
HeadingBefore(position, names) ==
    LET before == { j \in 1..(position - 1) : soup[1][j].name \in names }
    IN  IF before = {} THEN <<"Introduction">>
        ELSE LET last == CHOOSE j \in before : \A i \in before : i <= j
             IN  RemoveBrackets(Strip(soup[1][last].text))

\* Every chunk has the title of the page, and as heading the cleaned text of
\* the last preceding element of the given names.
TaggedBy(names) ==
    /\ \A n \in 1..Len(TextChunks) :
         /\ TextChunks[n].metadata["page_title"] = page_title
         /\ TextChunks[n].metadata["heading"] = HeadingBefore(TextSources[n], names)
    /\ \A n \in 1..Len(TableChunks) :
         /\ TableChunks[n].metadata["page_title"] = page_title
         /\ TableChunks[n].metadata["heading"] = HeadingBefore(TableSources[n], names)

RECURSIVE DocumentOrderFrom(_, _, _)
DocumentOrderFrom(elements, i, section) ==
    IF i > Len(elements) THEN <<>>
    ELSE LET element == elements[i]
             cleaned == RemoveBrackets(Strip(element.text))
         IN  IF element.name = "h2" THEN DocumentOrderFrom(elements, i + 1, cleaned)
             ELSE (IF element.name = "p" /\ cleaned # <<>>
                   THEN <<TextChunk(section, cleaned)>>
                   ELSE IF /\ element.name = "table"
                           /\ "wikitable" \in element.class
                           /\ element.table.header # <<>>
                   THEN <<TableChunk(section, element.table)>>
                   ELSE <<>>)
                  \o DocumentOrderFrom(elements, i + 1, section)

(***************************************************************************)
(* C19. Chunk order is document order: for any rendered page mixing        *)
(* paragraphs and wiki tables, the chunks produced by create_chunks stand  *)
(* in the order their source elements occur in the document, so a table    *)
(* located before a paragraph yields its chunk before that of the          *)
(* paragraph.                                                              *)
(***************************************************************************)
C19_ChunksInDocumentOrder ==
    extracted = <<"extract_text_chunks", "extract_table_chunks">>
    => chunks = DocumentOrderFrom(soup[1], 1, <<"Introduction">>)

(***************************************************************************)
(* QdrantManager.__init__ run by concurrent threads                        *)
(*                                                                         *)
(* search_documents, RAGModule and the ingestion function construct a      *)
(* QdrantManager per request, and the endpoints are synchronous, so the    *)
(* server runs them in the threads of its pool.  __init__ makes four       *)
(* blocking calls in turn (the embedding model, the client, the existence  *)
(* check, and, when the collection is missing, the sample embedding and    *)
(* the creation); another thread may run between any two of them.          *)
(***************************************************************************)

otherVars == <<ingestVars, ragVars, wikiVars, normVars, llmVars>>

\* The thread's position moves on; the outcome of its last construction stays.
Goto(t, at) == [managerPc EXCEPT ![t] = [at |-> at, last |-> @.last]]

\* self._init_embedding_model()
InitEmbeddingModel(t) ==
    /\ managerPc[t].at = "idle"
    /\ managerPc' = Goto(t, "model")
    /\ UNCHANGED <<upserting, ingested, qdrantVars, otherVars>>

\* self.__connect()
Connect(t) ==
    /\ managerPc[t].at = "model"
    /\ managerPc' = Goto(t, "connected")
    /\ UNCHANGED <<upserting, ingested, qdrantVars, otherVars>>

\* get_or_create_collection: "if not self.client.collection_exists(...)"; the
\* thread goes on with what the index service answered at that moment.
CollectionExists(t) ==
    /\ managerPc[t].at = "connected"
    /\ managerPc' = Goto(t, IF MustCreate(collection) THEN "missing" ELSE "returned")
    /\ UNCHANGED <<upserting, ingested, qdrantVars, otherVars>>

\* sample_embedding = self._generate_embedding("sample text")
SampleEmbedding(t) ==
    /\ managerPc[t].at = "missing"
    /\ managerPc' = Goto(t, "embedded")
    /\ UNCHANGED <<upserting, ingested, qdrantVars, otherVars>>

\* self.client.create_collection(...): the index service creates the
\* collection, or refuses and the except clause logs and re-raises.
CreateCollection(t) ==
    /\ managerPc[t].at = "embedded"
    /\ LET vector_size == Len(generate_embedding(SampleText))
           r           == create_collection(collection, VectorParams(vector_size))
       IN  /\ collection' = r.collection
           /\ createCalls' = IF r.ok THEN createCalls + 1 ELSE createCalls
           /\ managerPc' = Goto(t, IF r.ok THEN "returned" ELSE "raised")
    /\ UNCHANGED <<upserting, ingested, qdrantPc, qdrantCall, otherVars>>

\* The construction is over, with a manager or with the error; the thread
\* is free for the next request.
ManagerDone(t) ==
    /\ managerPc[t].at \in {"returned", "raised"}
    /\ managerPc' = [managerPc EXCEPT ![t] = [at |-> "idle", last |-> @.at]]
    /\ UNCHANGED <<upserting, ingested, qdrantVars, otherVars>>

\* A server starting against an index service that never had the collection,
\* or that has it from an earlier run.
InitStartup ==
    /\ RagAtRest
    /\ WikiAtRest
    /\ NormAtRest
    /\ LlmAtRest
    /\ CallersAtRest
    /\ ingestPc = "idle"
    /\ ingestCall = NoCall
    /\ qdrantPc = "idle"
    /\ qdrantCall = NoCall
    /\ \/ collection = None /\ createCalls = 0 /\ store = <<>>
       \/ /\ collection = Some(VectorParams(Len(generate_embedding(SampleText))))
          /\ createCalls = 1
          /\ store \in StoredCollections

NextStartup ==
    \E t \in Threads :
        \/ InitEmbeddingModel(t)
        \/ Connect(t)
        \/ CollectionExists(t)
        \/ SampleEmbedding(t)
        \/ CreateCollection(t)
        \/ ManagerDone(t)

SpecStartup == InitStartup /\ [][NextStartup]_vars

(***************************************************************************)
(* C22. Concurrent startup safety: when two or more QdrantManager          *)
(* instances are initialised concurrently against a store where the        *)
(* collection is absent, every initialisation completes without error and  *)
(* the collection ends up created exactly once.                            *)
(***************************************************************************)
C22_ConcurrentStartupSafe ==
    /\ \A t \in Threads : managerPc[t].at # "raised"
    /\ (\A t \in Threads : managerPc[t].at = "returned")
         => collection_exists(collection) /\ createCalls = 1

(***************************************************************************)
(* QdrantManager.ingest run by concurrent threads                          *)
(*                                                                         *)
(* /ingest is a synchronous endpoint, so two ingestions may run at the     *)
(* same time.  Each call builds its points and sends them in one upsert    *)
(* request; the index service applies a request point by point, and the    *)
(* points of two requests may be applied in any interleaving.              *)
(***************************************************************************)

\* The points the loop of ingest builds for the batches of the model, every
\* chunk embedding; a call is handed each of its chunks once.
BatchPoints ==
    { BuildPoints(DocsOf(batch), MetasOf(batch), 1, {}) :
        batch \in { b \in Batches :
                      \A j, k \in 1..Len(b) :
                          j # k => <<ContentOf(b[j].doc), b[j].meta>>
                                     # <<ContentOf(b[k].doc), b[k].meta>> } }

\* ingest, the loop and the request: the thread builds the points of its
\* batch and sends the upsert request.
IngestBegin(t) ==
    /\ upserting[t] = <<>>
    /\ \E points \in BatchPoints :
         /\ upserting' = [upserting EXCEPT ![t] = points]
         /\ ingested' = ingested \cup { points[k] : k \in 1..Len(points) }
    /\ UNCHANGED <<store, ingestPc, ingestCall, managerPc,
                   ragVars, wikiVars, normVars, qdrantVars, llmVars>>

\* The index service applies the next point of the thread's request; the
\* call returns when the last one is applied.
UpsertPoint(t) ==
    /\ upserting[t] # <<>>
    /\ store' = upsert(store, <<Head(upserting[t])>>)
    /\ upserting' = [upserting EXCEPT ![t] = Tail(@)]
    /\ UNCHANGED <<ingested, ingestPc, ingestCall, managerPc,
                   ragVars, wikiVars, normVars, qdrantVars, llmVars>>

NextConcurrentIngest == \E t \in Threads : IngestBegin(t) \/ UpsertPoint(t)

SpecConcurrentIngest == InitIngest /\ [][NextConcurrentIngest]_vars

(***************************************************************************)
(* C21. Fingerprint upsert is commutative: the final set of stored points  *)
(* after ingesting a collection of chunks is independent of the order of   *)
(* the chunks within a batch, of how the chunks are split into batches and *)
(* of the interleaving of concurrent ingest calls over overlapping chunk   *)
(* sets; it always equals one point per distinct (content, metadata)       *)
(* fingerprint.                                                            *)
(***************************************************************************)
Fingerprints == { point.id : point \in ingested }

StoredPoint(point) == [vector |-> point.vector, payload |-> point.payload]

Pending(id) ==
    \E t \in Threads : \E k \in 1..Len(upserting[t]) : upserting[t][k].id = id

Quiescent == \A t \in Threads : upserting[t] = <<>>

\* No two different (content, metadata) pairs handed in share a fingerprint.
CollisionFree ==
    \A p, q \in ingested : p.id = q.id => p.payload = q.payload

MaxPages == 2

PageTitles == {"P", "Q"}

\* What the page source has for a title when it is asked: nothing it can
\* serve (the request fails), or a page that yields no chunk, one paragraph,
\* or a paragraph and a table under a later heading.
Pages(title) ==
    LET text  == [content  |-> [kind |-> "str", val |-> <<"a">>],
                  metadata |-> [page_title |-> title, heading |-> "I"]]
        table == [content  |-> [kind |-> "list", val |-> <<"a">>],
                  metadata |-> [page_title |-> title, heading |-> "T"]]
    IN  { [available |-> FALSE, chunks |-> <<>>] }
        \cup { [available |-> TRUE, chunks |-> cs] : cs \in { <<>>, <<text>>, <<text, table>> } }

\* WikipediaPageProcessor.process_page: the page is fetched and segmented;
\* the chunks are returned, or the failure of a fetch is raised.
process_page(page) ==
    IF page.available
    THEN [outcome |-> "returned", chunks |-> page.chunks]
    ELSE [outcome |-> "raised", chunks |-> <<>>]

\* A plausible slip: the failure of a page is caught and the page skipped.
PropagatesNever(r) == FALSE

\* "chunks = processor.process_page()" stands in no try block: what it
\* raises leaves the function.
Propagates(r) == r.outcome = "raised"

\* The loop over page_titles: all_documents and all_metadata after it, or
\* the failure that ended it.
RECURSIVE all_chunks(_, _, _)
all_chunks(page_titles, pages, i) ==
    IF i > Len(page_titles)
    THEN [outcome |-> "returned", all_documents |-> <<>>, all_metadata |-> <<>>]
    ELSE LET r == process_page(pages[i])
         IN  IF Propagates(r)
             THEN [outcome |-> "raised", all_documents |-> <<>>, all_metadata |-> <<>>]
             ELSE LET rest == all_chunks(page_titles, pages, i + 1)
                  IN  IF rest.outcome = "raised" THEN rest
                      ELSE [outcome       |-> "returned",
                            all_documents |-> [k \in 1..Len(r.chunks) |-> r.chunks[k].content]
                                              \o rest.all_documents,
                            all_metadata  |-> [k \in 1..Len(r.chunks) |-> r.chunks[k].metadata]
                                              \o rest.all_metadata]

\* ingest_multiple_wikipedia_pages_to_qdrant as a function of the index
\* service, its arguments, the pages served and the failures of the
\* collaborators of ingest.
ingest_multiple_wikipedia_pages_to_qdrant(st, coll, created, page_titles, pages, embedBad, rejected) ==
    LET qdrant_manager == get_or_create_collection(coll, created)
        collected      == all_chunks(page_titles, pages, 1)
        aborted        == [outcome     |-> "raised", store |-> st, ingests |-> <<>>,
                           collection  |-> qdrant_manager.collection,
                           createCalls |-> qdrant_manager.createCalls]
    IN  IF qdrant_manager.outcome = "raised" \/ collected.outcome = "raised"
        THEN aborted
        ELSE LET r == ingest(st, collected.all_documents, collected.all_metadata,
                             embedBad, rejected)
             IN  [outcome     |-> r.outcome, store |-> r.store,
                  ingests     |-> <<[documents |-> collected.all_documents,
                                     metadata  |-> collected.all_metadata]>>,
                  collection  |-> qdrant_manager.collection,
                  createCalls |-> qdrant_manager.createCalls]

\* The /ingest endpoint (or the command line) ingests a list of pages.
IngestPages ==
    /\ ingestPc = "idle"
    /\ \E n \in 0..MaxPages :
         \E page_titles \in [1..n -> PageTitles] :
           \E pages \in [1..n -> UNION { Pages(title) : title \in PageTitles }],
              embedBad \in SUBSET Contents, rejected \in SUBSET Contents :
             /\ \A k \in 1..n : pages[k] \in Pages(page_titles[k])
             /\ LET r == ingest_multiple_wikipedia_pages_to_qdrant(
                             store, collection, createCalls, page_titles, pages,
                             embedBad, rejected)
                IN  /\ store' = r.store
                    /\ collection' = r.collection
                    /\ createCalls' = r.createCalls
                    /\ ingestCall' = [op          |-> "ingest_pages",
                                      before      |-> store,
                                      page_titles |-> page_titles,
                                      pages       |-> pages,
                                      outcome     |-> r.outcome,
                                      ingests     |-> r.ingests]
    /\ ingestPc' = "done"
    /\ UNCHANGED <<qdrantPc, qdrantCall, ragVars, wikiVars, normVars, llmVars, callerVars>>

NextPages == IngestPages \/ IngestDone

SpecPages == InitIngest /\ [][NextPages]_vars

(***************************************************************************)
(* C23. Multi-page ingestion is all-or-nothing with respect to extraction: *)
(* the chunks of every listed page are extracted before the single ingest  *)
(* call, so if extracting any page fails the function fails and no chunk   *)
(* of any page (including pages extracted successfully earlier) has been   *)
(* written to the store.                                                   *)
(***************************************************************************)
ExtractionFailed ==
    \E k \in 1..Len(ingestCall.pages) : ~ingestCall.pages[k].available

RECURSIVE ChunksOfPages(_, _)
ChunksOfPages(pages, i) ==
    IF i > Len(pages) THEN <<>> ELSE pages[i].chunks \o ChunksOfPages(pages, i + 1)

C23_AllOrNothingExtraction ==
    ingestCall.op = "ingest_pages" =>
        IF ExtractionFailed
        THEN /\ ingestCall.outcome = "raised"
             /\ ingestCall.ingests = <<>>
             /\ store = ingestCall.before
        ELSE LET extracted_chunks == ChunksOfPages(ingestCall.pages, 1)
             IN  ingestCall.ingests =
                     <<[documents |-> [k \in 1..Len(extracted_chunks) |->
                                          extracted_chunks[k].content],
                        metadata  |-> [k \in 1..Len(extracted_chunks) |->
                                          extracted_chunks[k].metadata]]>>

\* The first page yields two chunks, the second page fails: the call has
\* raised and the collection, empty before, is still empty.
C23_Witness ==
    /\ ingestCall.op = "ingest_pages"
    /\ ingestCall.page_titles = <<"P", "Q">>
    /\ ingestCall.pages[1].available /\ Len(ingestCall.pages[1].chunks) = 2
    /\ ~ingestCall.pages[2].available
    /\ ingestCall.outcome = "raised"
    /\ ingestCall.before = <<>>
    /\ store = <<>>
====
